---------------------------- MODULE Spec2Model ----------------------------
(***************************************************************************)
(* Model of app.py, the Streamlit "Smart ATS-Friendly Resume Builder".     *)
(*                                                                         *)
(* A Python str is modelled as a sequence of characters, each character a  *)
(* TLA+ string: "python" is <<"p","y","t","h","o","n">>.  A printable      *)
(* ASCII character other than the grave accent is written as itself, tab,  *)
(* line feed, form feed and carriage return as "\t", "\n", "\f" and "\r",  *)
(* and every other character by its code point, "U+" and four upper-case   *)
(* hexadecimal digits: "U+0060" is the grave accent, "U+00A0" the no-break *)
(* space, "U+2705" the check mark of the "Matched Skills" label.  Each     *)
(* counts as one character.                                                *)
(*                                                                         *)
(* The characters of the model are those of Alphabet: all of U+0000 to     *)
(* U+00FF, every character str.strip() removes, and letters outside that   *)
(* range on which str.lower() and str.isupper() do something ASCII does    *)
(* not show: a capital whose lower case is an ASCII letter (KELVIN SIGN),  *)
(* one whose lower case is two characters (U+0130), one whose lower case   *)
(* depends on its neighbours (capital sigma), a title-case letter          *)
(* (U+01C5), lower-case letters without a capital in the alphabet, and a   *)
(* few Cyrillic letters.                                                   *)
(***************************************************************************)
EXTENDS Naturals, Sequences, FiniteSets

VARIABLES
    TECH_KEYWORDS,  \* the module-level keyword list (a mutable Python list)
    pc,             \* position of the current script run / harness call
    st_name,        \* st.session_state.name
    st_contact,     \* st.session_state.contact
    resume_file,    \* value of the file_uploader widget (NoFile or a file)
    job_link,       \* value of the "Job Link" text_input
    job_desc,       \* value of the job description text_area
    name,           \* local: st.session_state.name.strip()
    contact,        \* local: st.session_state.contact.strip()
    old_text,       \* local: extract_text(...)
    new_resume,     \* local: build_resume(...)[0]
    matched,        \* local: build_resume(...)[1]
    unmatched,      \* local: build_resume(...)[2]
    pdf_path,       \* local: generate_pdf(...), modelled by the story it builds
    ui,             \* the elements the run has rendered so far, in order
    call,           \* direct-call harness: the function called, arguments, return
    prior_builds    \* history: earlier runs of this session that called build_resume

vars == <<TECH_KEYWORDS, pc, st_name, st_contact, resume_file, job_link, job_desc,
          name, contact, old_text, new_resume, matched, unmatched, pdf_path, ui, call,
          prior_builds>>

-----------------------------------------------------------------------------
(* Python str primitives                                                   *)

\* The characters of the model, in increasing code point order.
Alphabet == <<
    "U+0000", "U+0001", "U+0002", "U+0003", "U+0004", "U+0005", "U+0006",
    "U+0007", "U+0008", "\t", "\n", "U+000B", "\f", "\r", "U+000E",
    "U+000F", "U+0010", "U+0011", "U+0012", "U+0013", "U+0014", "U+0015",
    "U+0016", "U+0017", "U+0018", "U+0019", "U+001A", "U+001B", "U+001C",
    "U+001D", "U+001E", "U+001F", " ", "!", "\"", "#", "$", "%", "&", "'",
    "(", ")", "*", "+", ",", "-", ".", "/", "0", "1", "2", "3", "4", "5",
    "6", "7", "8", "9", ":", ";", "<", "=", ">", "?", "@", "A", "B", "C",
    "D", "E", "F", "G", "H", "I", "J", "K", "L", "M", "N", "O", "P", "Q",
    "R", "S", "T", "U", "V", "W", "X", "Y", "Z", "[", "\\", "]", "^", "_",
    "U+0060", "a", "b", "c", "d", "e", "f", "g", "h", "i", "j", "k", "l", "m",
    "n", "o", "p", "q", "r", "s", "t", "u", "v", "w", "x", "y", "z", "{",
    "|", "}", "~", "U+007F", "U+0080", "U+0081", "U+0082", "U+0083",
    "U+0084", "U+0085", "U+0086", "U+0087", "U+0088", "U+0089", "U+008A",
    "U+008B", "U+008C", "U+008D", "U+008E", "U+008F", "U+0090", "U+0091",
    "U+0092", "U+0093", "U+0094", "U+0095", "U+0096", "U+0097", "U+0098",
    "U+0099", "U+009A", "U+009B", "U+009C", "U+009D", "U+009E", "U+009F",
    "U+00A0", "U+00A1", "U+00A2", "U+00A3", "U+00A4", "U+00A5", "U+00A6",
    "U+00A7", "U+00A8", "U+00A9", "U+00AA", "U+00AB", "U+00AC", "U+00AD",
    "U+00AE", "U+00AF", "U+00B0", "U+00B1", "U+00B2", "U+00B3", "U+00B4",
    "U+00B5", "U+00B6", "U+00B7", "U+00B8", "U+00B9", "U+00BA", "U+00BB",
    "U+00BC", "U+00BD", "U+00BE", "U+00BF", "U+00C0", "U+00C1", "U+00C2",
    "U+00C3", "U+00C4", "U+00C5", "U+00C6", "U+00C7", "U+00C8", "U+00C9",
    "U+00CA", "U+00CB", "U+00CC", "U+00CD", "U+00CE", "U+00CF", "U+00D0",
    "U+00D1", "U+00D2", "U+00D3", "U+00D4", "U+00D5", "U+00D6", "U+00D7",
    "U+00D8", "U+00D9", "U+00DA", "U+00DB", "U+00DC", "U+00DD", "U+00DE",
    "U+00DF", "U+00E0", "U+00E1", "U+00E2", "U+00E3", "U+00E4", "U+00E5",
    "U+00E6", "U+00E7", "U+00E8", "U+00E9", "U+00EA", "U+00EB", "U+00EC",
    "U+00ED", "U+00EE", "U+00EF", "U+00F0", "U+00F1", "U+00F2", "U+00F3",
    "U+00F4", "U+00F5", "U+00F6", "U+00F7", "U+00F8", "U+00F9", "U+00FA",
    "U+00FB", "U+00FC", "U+00FD", "U+00FE", "U+00FF", "U+0130", "U+0131",
    "U+0178", "U+017F", "U+01C4", "U+01C5", "U+01C6", "U+0307", "U+03A3",
    "U+03C2", "U+03C3", "U+0410", "U+0412", "U+0418", "U+041D", "U+0430",
    "U+0432", "U+0438", "U+043D", "U+1680", "U+2000", "U+2001", "U+2002",
    "U+2003", "U+2004", "U+2005", "U+2006", "U+2007", "U+2008", "U+2009",
    "U+200A", "U+2028", "U+2029", "U+202F", "U+205F", "U+212A", "U+212B",
    "U+26A0", "U+2705", "U+3000", "U+FE0F" >>

\* ord(c), up to an increasing renumbering: the place of c in Alphabet.
Ord == [c \in {Alphabet[i] : i \in DOMAIN Alphabet} |->
            CHOOSE i \in DOMAIN Alphabet : Alphabet[i] = c]

\* The characters whose lower case is one other character, and that lower
\* case, place by place.
UpperCase == <<
    "A", "B", "C", "D", "E", "F", "G", "H", "I", "J", "K", "L", "M", "N",
    "O", "P", "Q", "R", "S", "T", "U", "V", "W", "X", "Y", "Z", "U+00C0",
    "U+00C1", "U+00C2", "U+00C3", "U+00C4", "U+00C5", "U+00C6", "U+00C7",
    "U+00C8", "U+00C9", "U+00CA", "U+00CB", "U+00CC", "U+00CD", "U+00CE",
    "U+00CF", "U+00D0", "U+00D1", "U+00D2", "U+00D3", "U+00D4", "U+00D5",
    "U+00D6", "U+00D8", "U+00D9", "U+00DA", "U+00DB", "U+00DC", "U+00DD",
    "U+00DE", "U+0178", "U+01C4", "U+01C5", "U+0410", "U+0412", "U+0418",
    "U+041D", "U+212A", "U+212B" >>

LowerCase == <<
    "a", "b", "c", "d", "e", "f", "g", "h", "i", "j", "k", "l", "m", "n",
    "o", "p", "q", "r", "s", "t", "u", "v", "w", "x", "y", "z", "U+00E0",
    "U+00E1", "U+00E2", "U+00E3", "U+00E4", "U+00E5", "U+00E6", "U+00E7",
    "U+00E8", "U+00E9", "U+00EA", "U+00EB", "U+00EC", "U+00ED", "U+00EE",
    "U+00EF", "U+00F0", "U+00F1", "U+00F2", "U+00F3", "U+00F4", "U+00F5",
    "U+00F6", "U+00F8", "U+00F9", "U+00FA", "U+00FB", "U+00FC", "U+00FD",
    "U+00FE", "U+00FF", "U+01C6", "U+01C6", "U+0430", "U+0432", "U+0438",
    "U+043D", "k", "U+00E5" >>

CAPITAL_I_WITH_DOT == "U+0130"
COMBINING_DOT_ABOVE == "U+0307"
CAPITAL_SIGMA == "U+03A3"
FINAL_SIGMA == "U+03C2"
SMALL_SIGMA == "U+03C3"

\* Lower-case characters that are the lower case of no character above.
OtherLower == {
    "U+00AA", "U+00B5", "U+00BA", "U+00DF", "U+0131", "U+017F", "U+03C2",
    "U+03C3" }

\* Title-case characters: cased, neither upper nor lower case.
TitleCase == {"U+01C5"}

\* Characters the final-sigma rule of str.lower() looks through.
CaseIgnorable == {
    "'", ".", ":", "^", "U+0060", "U+00A8", "U+00AD", "U+00AF", "U+00B4",
    "U+00B7", "U+00B8", "U+0307", "U+FE0F" }

\* c.isupper() and c.islower() of a single character c
UpperChars ==
    ({UpperCase[i] : i \in DOMAIN UpperCase} \cup {CAPITAL_I_WITH_DOT, CAPITAL_SIGMA})
        \ TitleCase
LowerChars == {LowerCase[i] : i \in DOMAIN LowerCase} \cup OtherLower
Cased == UpperChars \cup LowerChars \cup TitleCase

\* The lower case of a character that has one, as a str: one character, two
\* for U+0130.  Capital sigma is not in the table, see lower_at.
ToLower == [c \in {UpperCase[i] : i \in DOMAIN UpperCase} \cup {CAPITAL_I_WITH_DOT} |->
                IF c = CAPITAL_I_WITH_DOT THEN <<"i", COMBINING_DOT_ABOVE>>
                ELSE <<LowerCase[CHOOSE i \in DOMAIN UpperCase : UpperCase[i] = c]>>]

\* The capital sigma at s[i] is final: the nearest character before it that is
\* not case-ignorable is cased, and the nearest such character after it, if
\* there is one, is not.
final_sigma(s, i) ==
    LET before == {j \in 1..(i - 1) : s[j] \notin CaseIgnorable}
        after  == {j \in (i + 1)..Len(s) : s[j] \notin CaseIgnorable}
    IN  /\ before # {}
        /\ s[CHOOSE j \in before : \A k \in before : k <= j] \in Cased
        /\ \/ after = {}
           \/ s[CHOOSE j \in after : \A k \in after : j <= k] \notin Cased

\* What str.lower() puts in place of the character s[i].
lower_at(s, i) ==
    IF s[i] = CAPITAL_SIGMA
    THEN <<IF final_sigma(s, i) THEN FINAL_SIGMA ELSE SMALL_SIGMA>>
    ELSE IF s[i] \in DOMAIN ToLower THEN ToLower[s[i]]
    ELSE <<s[i]>>

\* "".join(parts)
RECURSIVE concat(_)
concat(parts) == IF parts = <<>> THEN <<>> ELSE Head(parts) \o concat(Tail(parts))

\* str.lower()
lower(s) == concat([i \in 1..Len(s) |-> lower_at(s, i)])

\* sub in s
Contains(sub, s) ==
    \E i \in 1..(Len(s) + 1) :
        /\ i + Len(sub) - 1 <= Len(s)
        /\ \A j \in 1..Len(sub) : s[i + j - 1] = sub[j]

\* s.endswith(suffix)
EndsWith(s, suffix) ==
    /\ Len(suffix) <= Len(s)
    /\ \A j \in 1..Len(suffix) : s[Len(s) - Len(suffix) + j] = suffix[j]

\* The characters c with c.isspace(), which str.strip() removes.
Whitespace == {
    "\t", "\n", "U+000B", "\f", "\r", "U+001C", "U+001D", "U+001E",
    "U+001F", " ", "U+0085", "U+00A0", "U+1680", "U+2000", "U+2001",
    "U+2002", "U+2003", "U+2004", "U+2005", "U+2006", "U+2007", "U+2008",
    "U+2009", "U+200A", "U+2028", "U+2029", "U+202F", "U+205F", "U+3000" }

\* str.strip()
strip(s) ==
    LET keep == {i \in 1..Len(s) : s[i] \notin Whitespace}
    IN  IF keep = {} THEN <<>>
        ELSE LET first == CHOOSE i \in keep : \A j \in keep : i <= j
                 last  == CHOOSE i \in keep : \A j \in keep : j <= i
             IN  SubSeq(s, first, last)

\* s.split("\n"): the pieces between newlines, always at least one piece
RECURSIVE split_lines(_)
split_lines(s) ==
    LET nl == {i \in 1..Len(s) : s[i] = "\n"}
    IN  IF nl = {} THEN <<s>>
        ELSE LET k == CHOOSE i \in nl : \A j \in nl : i <= j
             IN  <<SubSeq(s, 1, k - 1)>> \o split_lines(SubSeq(s, k + 1, Len(s)))

\* sep.join(parts)
RECURSIVE join(_, _)
join(sep, parts) ==
    IF parts = <<>> THEN <<>>
    ELSE IF Len(parts) = 1 THEN parts[1]
    ELSE parts[1] \o sep \o join(sep, Tail(parts))

\* a < b on str: lexicographic by code point
RECURSIVE StrLess(_, _)
StrLess(a, b) ==
    IF b = <<>> THEN FALSE
    ELSE IF a = <<>> THEN TRUE
    ELSE IF a[1] # b[1] THEN Ord[a[1]] < Ord[b[1]]
    ELSE StrLess(Tail(a), Tail(b))

\* sorted(list(S)) for a set S of str
RECURSIVE sorted(_)
sorted(S) ==
    IF S = {} THEN <<>>
    ELSE LET m == CHOOSE x \in S : \A y \in S : x = y \/ StrLess(x, y)
         IN  <<m>> \o sorted(S \ {m})

\* set(l)
set(l) == {l[i] : i \in DOMAIN l}

\* The lists list(S) can be: the elements of S, once each, in any order.
Orderings(S) ==
    {l \in [1..Cardinality(S) -> S] : set(l) = S}

-----------------------------------------------------------------------------
(* Skills extraction                                                       *)

KeywordList == <<
    <<"p","y","t","h","o","n">>,
    <<"j","a","v","a">>,
    <<"c">>,
    <<"c","+","+">>,
    <<"s","q","l">>,
    <<"a","w","s">>,
    <<"m","l">>,
    <<"a","i">>,
    <<"f","l","a","s","k">>,
    <<"d","j","a","n","g","o">>,
    <<"r","e","a","c","t">>,
    <<"n","o","d","e">>,
    <<"g","i","t">>,
    <<"d","o","c","k","e","r">>,
    <<"k","u","b","e","r","n","e","t","e","s">>,
    <<"l","i","n","u","x">>,
    <<"t","e","n","s","o","r","f","l","o","w">>,
    <<"p","a","n","d","a","s">>,
    <<"n","u","m","p","y">>,
    <<"m","a","t","l","a","b">>,
    <<"v","e","r","i","l","o","g">>,
    <<"v","h","d","l">>,
    <<"a","r","d","u","i","n","o">>,
    <<"r","a","s","p","b","e","r","r","y"," ","p","i">>,
    <<"s","t","m","3","2">>,
    <<"i","o","t">>,
    <<"f","p","g","a">>,
    <<"a","s","i","c">>,
    <<"e","d","a"," ","t","o","o","l","s">>,
    <<"m","i","c","r","o","c","o","n","t","r","o","l","l","e","r","s">>
  >>


\* Variant of skills_found that forgets text.lower(): matching is case-sensitive.
skills_found_case_sensitive(kw, text) ==
    SelectSeq(kw, LAMBDA skill : Contains(skill, text))

\* The list skills_found at the end of extract_skills' loop over the keyword
\* list kw: the keywords contained in text.lower(), in the order of kw.
skills_found(kw, text) ==
    LET t == lower(text)
    IN  SelectSeq(kw, LAMBDA skill : Contains(skill, t))

\* extract_skills(text): list(set(skills_found)).  The order of a list made from
\* a set is not fixed, so the operator is the set of lists the call may return.
extract_skills(text) ==
    Orderings(set(skills_found(TECH_KEYWORDS, text)))

-----------------------------------------------------------------------------
(* Build resume                                                            *)

W_project == <<"p","r","o","j","e","c","t">>
W_intern == <<"i","n","t","e","r","n">>
W_experience == <<"e","x","p","e","r","i","e","n","c","e">>
W_btech == <<"b",".","t","e","c","h">>
W_degree == <<"d","e","g","r","e","e">>
W_university == <<"u","n","i","v","e","r","s","i","t","y">>

\* Variant of section_of that tests "intern"/"experience" before "project".
section_of_experience_first(kw, line) ==
    LET l == lower(line)
    IN  IF Contains(W_intern, l) \/ Contains(W_experience, l) THEN "EXPERIENCE"
        ELSE IF Contains(W_project, l) THEN "PROJECTS"
        ELSE IF Contains(W_btech, l) \/ Contains(W_degree, l) \/ Contains(W_university, l)
             THEN "EDUCATION"
        ELSE IF \E i \in DOMAIN kw : Contains(kw[i], l) THEN "SKILLS"
        ELSE "SUMMARY"

\* The section a line of the old resume is appended to (the if/elif chain).
section_of(kw, line) ==
    LET l == lower(line)
    IN  IF Contains(W_project, l) THEN "PROJECTS"
        ELSE IF Contains(W_intern, l) \/ Contains(W_experience, l) THEN "EXPERIENCE"
        ELSE IF Contains(W_btech, l) \/ Contains(W_degree, l) \/ Contains(W_university, l)
             THEN "EDUCATION"
        ELSE IF \E i \in DOMAIN kw : Contains(kw[i], l) THEN "SKILLS"
        ELSE "SUMMARY"

\* lines = [l.strip() for l in old.split("\n") if l.strip()]
resume_lines(old) ==
    LET parts == split_lines(old)
        stripped == [i \in DOMAIN parts |-> strip(parts[i])]
    IN  SelectSeq(stripped, LAMBDA l : l # <<>>)

SectionNames == {"SUMMARY", "SKILLS", "PROJECTS", "EXPERIENCE", "EDUCATION"}

\* The dict sections after the loop over lines.
sections(kw, old) ==
    LET lines == resume_lines(old)
        sec == [i \in DOMAIN lines |-> section_of(kw, lines[i])]
        idx == [n \in SectionNames |->
                    SelectSeq([i \in DOMAIN lines |-> i], LAMBDA i : sec[i] = n)]
    IN  [n \in SectionNames |-> [k \in DOMAIN idx[n] |-> lines[idx[n][k]]]]

DashCount == 40
MaxProjects == 5
MaxExperience == 4
MaxEducation == 3

\* "-"*40
Dashes == [i \in 1..DashCount |-> "-"]

\* l[:n]
take(l, n) == SubSeq(l, 1, IF Len(l) < n THEN Len(l) ELSE n)

SUMMARY_TEXT ==
    <<"M","o","t","i","v","a","t","e","d"," ","e","n","g","i","n","e","e","r",
      "i","n","g"," ","s","t","u","d","e","n","t"," ","w","i","t","h"," ",
      "s","t","r","o","n","g"," ","p","r","o","b","l","e","m","-","s","o",
      "l","v","i","n","g"," ","s","k","i","l","l","s"," ","a","n","d"," ",
      "e","x","p","e","r","i","e","n","c","e"," ","i","n"," ","b","u","i",
      "l","d","i","n","g"," ","a","p","p","l","i","c","a","t","i","o","n",
      "s",".">>
SKILLED_IN == <<" ","S","k","i","l","l","e","d"," ","i","n"," ">>
MATCHED_LABEL ==
    <<"U+2705"," ","M","a","t","c","h","e","d"," ","S","k","i","l","l","s",":"," ">>
UNMATCHED_LABEL ==
    <<"U+26A0","U+FE0F"," ","S","k","i","l","l","s"," ","t","o"," ","L","e","a",
      "r","n",":"," ">>
H_SUMMARY == <<"S","U","M","M","A","R","Y">>
H_SKILLS == <<"S","K","I","L","L","S">>
H_PROJECTS == <<"P","R","O","J","E","C","T","S">>
H_EXPERIENCE == <<"E","X","P","E","R","I","E","N","C","E">>
H_EDUCATION == <<"E","D","U","C","A","T","I","O","N">>
NL == <<"\n">>
COMMA_SP == <<",", " ">>

\* The text of: for p in items: resume += f"- {p}\n"
RECURSIVE bullets(_)
bullets(items) ==
    IF items = <<>> THEN <<>>
    ELSE <<"-", " ">> \o Head(items) \o NL \o bullets(Tail(items))

\* "HEADING\n" + "-"*40 + "\n"
heading(h) == h \o NL \o Dashes \o NL

\* The resume string build_resume assembles from the two sorted skill lists and
\* the sections.
resume_text(nm, ct, matched_skills, unmatched_skills, secs) ==
    nm \o NL \o ct \o NL \o NL
    \o heading(H_SUMMARY)
    \o SUMMARY_TEXT
    \o (IF matched_skills # <<>>
        THEN SKILLED_IN \o join(COMMA_SP, matched_skills) \o <<".">> ELSE <<>>)
    \o NL \o NL
    \o heading(H_SKILLS)
    \o (IF matched_skills # <<>>
        THEN MATCHED_LABEL \o join(COMMA_SP, matched_skills) \o NL ELSE <<>>)
    \o (IF unmatched_skills # <<>>
        THEN UNMATCHED_LABEL \o join(COMMA_SP, unmatched_skills) \o NL ELSE <<>>)
    \o NL
    \o heading(H_PROJECTS)
    \o bullets(take(secs["PROJECTS"], MaxProjects))
    \o NL
    \o heading(H_EXPERIENCE)
    \o bullets(take(secs["EXPERIENCE"], MaxExperience))
    \o NL
    \o heading(H_EDUCATION)
    \o bullets(take(secs["EDUCATION"], MaxEducation))

\* Variants of matched_of: the resume's skills without the intersection; the
\* common skills in the order extract_skills listed them, without sorted().
matched_of_no_intersection(old_skills, jd_skills) == sorted(set(old_skills))
matched_of_unsorted(old_skills, jd_skills) ==
    SelectSeq(old_skills, LAMBDA sk : sk \in set(jd_skills))

\* matched_skills = sorted(list(set(old_skills) & set(jd_skills)))
matched_of(old_skills, jd_skills) == sorted(set(old_skills) \cap set(jd_skills))

\* Variant of unmatched_of with the operands of the difference swapped.
unmatched_of_swapped(old_skills, jd_skills) == sorted(set(old_skills) \ set(jd_skills))

\* unmatched_skills = sorted(list(set(jd_skills) - set(old_skills)))
unmatched_of(old_skills, jd_skills) == sorted(set(jd_skills) \ set(old_skills))

\* build_resume with the keyword list kw: the set of triples
\* <<resume, matched_skills, unmatched_skills>> the call may return, one for each
\* order in which the two extract_skills calls may list the skills.
build_with(kw, old, jd, nm, ct) ==
    LET olds == Orderings(set(skills_found(kw, old)))
        jds  == Orderings(set(skills_found(kw, jd)))
        mu   == {<<matched_of(o, j), unmatched_of(o, j)>> : o \in olds, j \in jds}
        secs == sections(kw, old)
    IN  {<<resume_text(nm, ct, m[1], m[2], secs), m[1], m[2]>> : m \in mu}

\* build_resume(old, jd, name, contact)
build_resume(old, jd, nm, ct) ==
    build_with(TECH_KEYWORDS, old, jd, nm, ct)

-----------------------------------------------------------------------------
(* Input texts of the checks                                               *)

MaxWords == 2       \* words in a text handed to extract_skills
MaxRepeat == 5      \* copies of the repeated leading line of a long resume
MaxTail == 2        \* lines that follow the repeated line in a long resume

\* All sequences over V of length at most n.
SeqsUpTo(V, n) == UNION {[1..k -> V] : k \in 0..n}

\* n copies of x
Repeat(x, n) == [i \in 1..n |-> x]

SkillWords == {
    <<"P","y","t","h","o","n">>,
    <<"j","a","v","a","s","c","r","i","p","t">>,
    <<"S","Q","L">>,
    <<"C","+","+">>,
    <<"D","O","C","U+212A","E","R">>,
    <<"A","U+0130">>,
    <<"H","i">> }

\* Texts of up to MaxWords words, separated by one space.
SkillTexts == {join(<<" ">>, ws) : ws \in SeqsUpTo(SkillWords, MaxWords)}

TailLines == {
    <<"P","r","o","j","e","c","t",":"," ","I","o","T"," ","i","n","t","e","r","n">>,
    <<"\f","I","n","t","e","r","n",","," ","B",".","T","e","c","h","U+00A0">>,
    <<"U","n","i","v","e","r","s","i","t","y"," ","S","Q","L">>,
    <<"D","O","C","U+212A","E","R">>,
    <<"H","i">>,
    <<" ","U+00A0">> }

RepeatLines == {
    <<"P","R","O","J","E","C","T">>,
    <<"e","x","p","e","r","i","e","n","c","e">>,
    <<"d","e","g","r","e","e">> }

\* Long resumes: one line repeated up to MaxRepeat times, then up to MaxTail
\* further lines, all separated by newlines.
LongResumes ==
    {join(NL, Repeat(r, n) \o t) :
        r \in RepeatLines, n \in 0..MaxRepeat, t \in SeqsUpTo(TailLines, MaxTail)}

FewJobs == {
    <<>>,
    <<"P","y","t","h","o","n",","," ","S","Q","L",","," ","C","+","+">> }

FewResumes == {
    <<>>,
    <<"j","a","v","a","s","c","r","i","p","t">>,
    <<"P","y","t","h","o","n"," ","a","n","d"," ","D","o","c","k","e","r"," ",
      "p","r","o","j","e","c","t","s">> }

CallName == <<"A","l">>
CallContact == <<"a","@","b">>

\* The <<old_text, jd_text, name, contact>> argument lists of the direct calls.
BuildArgs ==
    {<<r, j, CallName, CallContact>> : r \in LongResumes, j \in FewJobs}
    \cup {<<r, j, CallName, CallContact>> : r \in FewResumes, j \in SkillTexts}

-----------------------------------------------------------------------------
(* Direct calls of the module's functions                                  *)

NoFile == [name |-> <<>>, kind |-> "none", bytes |-> <<>>, parts |-> <<>>]
NoPdf == [path |-> "", story |-> <<>>]
NoSections == [n \in SectionNames |-> <<>>]

\* A direct call: the function, its arguments, what it returned and, for
\* build_resume, its local dict sections at the return.
NoCall == [fn |-> "none", args |-> <<>>, ret |-> <<>>, sections |-> NoSections]

InitCalls ==
    /\ TECH_KEYWORDS = KeywordList
    /\ pc = "call"
    /\ st_name = <<>> /\ st_contact = <<>> /\ resume_file = NoFile
    /\ job_link = <<>> /\ job_desc = <<>>
    /\ name = <<>> /\ contact = <<>> /\ old_text = <<>>
    /\ new_resume = <<>> /\ matched = <<>> /\ unmatched = <<>>
    /\ pdf_path = NoPdf /\ ui = <<>>
    /\ prior_builds = 0
    /\ \/ \E t \in SkillTexts :
            call = [fn |-> "extract_skills", args |-> <<t>>, ret |-> <<>>,
                    sections |-> NoSections]
       \/ \E a \in BuildArgs :
            call = [fn |-> "build_resume", args |-> a, ret |-> <<>>,
                    sections |-> NoSections]

\* skills = extract_skills(text)
CallExtractSkills ==
    /\ pc = "call" /\ call.fn = "extract_skills"
    /\ \E r \in extract_skills(call.args[1]) : call' = [call EXCEPT !.ret = r]
    /\ pc' = "returned"
    /\ UNCHANGED <<TECH_KEYWORDS, prior_builds, st_name, st_contact, resume_file, job_link, job_desc,
                   name, contact, old_text, new_resume, matched, unmatched, pdf_path, ui>>

\* resume, matched, unmatched = build_resume(old_text, jd_text, name, contact)
CallBuildResume ==
    /\ pc = "call" /\ call.fn = "build_resume"
    /\ \E r \in build_resume(call.args[1], call.args[2], call.args[3], call.args[4]) :
            call' = [call EXCEPT !.ret = r,
                                 !.sections = sections(TECH_KEYWORDS, call.args[1])]
    /\ pc' = "returned"
    /\ UNCHANGED <<TECH_KEYWORDS, prior_builds, st_name, st_contact, resume_file, job_link, job_desc,
                   name, contact, old_text, new_resume, matched, unmatched, pdf_path, ui>>

NextCalls == CallExtractSkills \/ CallBuildResume

SpecCalls == InitCalls /\ [][NextCalls]_vars

-----------------------------------------------------------------------------
(* Read resume                                                             *)

EXT_PDF == <<".","p","d","f">>
EXT_DOCX == <<".","d","o","c","x">>

\* An uploaded file is [name, kind, bytes, parts].  bytes is its content as a
\* UTF-8 decoder meets it: the characters that are validly encoded in it, in
\* order, with BadByte in the place of every byte that belongs to no valid
\* encoding.  kind is what the bytes really are ("pdf", "docx" or "text") and
\* parts what the document library reads from them: the text of each page of a
\* PDF, the text of each paragraph of a DOCX, nothing for a text file.
BadByte == "0xFF"

\* file.decode("utf-8", errors="ignore"): every validly encoded character is
\* kept, every other byte is dropped; never raises.
decode(file) == SelectSeq(file.bytes, LAMBDA b : b # BadByte)

\* The text of: for page in pdf.pages: if page.extract_text(): text += ... + "\n"
RECURSIVE pages_text(_)
pages_text(pages) ==
    IF pages = <<>> THEN <<>>
    ELSE (IF Head(pages) # <<>> THEN Head(pages) \o NL ELSE <<>>)
         \o pages_text(Tail(pages))

EXT_TXT == <<".","t","x","t">>

\* Variant of extract_text that rejects a name with none of the three
\* extensions instead of decoding the file.
extract_text_strict(file, fname) ==
    IF EndsWith(fname, EXT_PDF)
    THEN IF file.kind = "pdf"
         THEN [raised |-> FALSE, text |-> pages_text(file.parts)]
         ELSE [raised |-> TRUE, text |-> <<>>]
    ELSE IF EndsWith(fname, EXT_DOCX)
    THEN IF file.kind = "docx"
         THEN [raised |-> FALSE, text |-> join(NL, file.parts)]
         ELSE [raised |-> TRUE, text |-> <<>>]
    ELSE IF EndsWith(fname, EXT_TXT)
    THEN [raised |-> FALSE, text |-> decode(file)]
    ELSE [raised |-> TRUE, text |-> <<>>]

\* extract_text(file, name): [raised, text].  pdfplumber.open and Document raise
\* on bytes that are not a PDF / a DOCX; the function catches nothing.
extract_text(file, fname) ==
    IF EndsWith(fname, EXT_PDF)
    THEN IF file.kind = "pdf"
         THEN [raised |-> FALSE, text |-> pages_text(file.parts)]
         ELSE [raised |-> TRUE, text |-> <<>>]
    ELSE IF EndsWith(fname, EXT_DOCX)
    THEN IF file.kind = "docx"
         THEN [raised |-> FALSE, text |-> join(NL, file.parts)]
         ELSE [raised |-> TRUE, text |-> <<>>]
    ELSE [raised |-> FALSE, text |-> decode(file)]

-----------------------------------------------------------------------------
(* PDF generator                                                           *)

HeadingMaxLen == 25

\* str.isupper(): no lower-case or title-case character, and some upper-case one
isupper(s) ==
    /\ \A i \in DOMAIN s : s[i] \notin LowerChars \cup TitleCase
    /\ \E i \in DOMAIN s : s[i] \in UpperChars

\* The flowables generate_pdf appends to story for one line of the text.
story_of_line(line) ==
    IF strip(line) = <<>> THEN <<"Spacer(1,10)">>
    ELSE IF isupper(line) /\ Len(line) < HeadingMaxLen
         THEN <<"Paragraph(heading)", "Spacer(1,6)">>
         ELSE <<"Paragraph(normal)", "Spacer(1,6)">>

RECURSIVE story_of(_)
story_of(lines) ==
    IF lines = <<>> THEN <<>>
    ELSE story_of_line(Head(lines)) \o story_of(Tail(lines))

\* Paragraph(line, style) reads its text as markup: "<" opens a tag and "&" a
\* character reference.  A line with neither is plain text.
MarkupChars == {"<", "&"}
has_markup(line) == \E i \in DOMAIN line : line[i] \in MarkupChars

\* Paragraph may raise on the line: the line is not blank, so that a Paragraph
\* is made of it, and it holds markup, which reportlab's parser rejects when it
\* is not well formed (a tag left open, as in "<b>x").  The parser is not part
\* of the program, so whether it rejects a given markup is left open.
may_reject(line) == strip(line) # <<>> /\ has_markup(line)

\* generate_pdf(text): the outcomes of the call.  It returns the path of the
\* temporary file, here with the story that doc.build wrote to it, or, when
\* some line of the text may be rejected, raises instead.
generate_pdf(text) ==
    LET lines == split_lines(text)
    IN  {[raised |-> FALSE, path |-> "tmp.pdf", story |-> story_of(lines)]}
        \cup (IF \E i \in DOMAIN lines : may_reject(lines[i])
              THEN {[raised |-> TRUE, path |-> "", story |-> <<>>]}
              ELSE {})

-----------------------------------------------------------------------------
(* Streamlit UI: widgets                                                   *)

MaxDocLines == 1    \* lines of an uploaded resume
MaxJobWords == 1    \* phrases of a pasted job description
MaxPriorBuilds == 1 \* earlier build_resume runs that are counted

UploaderTypes == {<<"p","d","f">>, <<"d","o","c","x">>, <<"t","x","t">>}

\* st.file_uploader(..., ["pdf", "docx", "txt"]) takes a file only when its
\* extension, compared without case, is one of the types.
uploader_accepts(fname) ==
    \E t \in UploaderTypes : EndsWith(lower(fname), <<".">> \o t)

FileNames == {
    <<"c","v",".","p","d","f">>,
    <<"c","v",".","d","o","c","x">>,
    <<"c","v",".","t","x","t">>,
    <<"C","V",".","P","D","F">>,
    <<"c","v",".","m","d">> }

DocLines == {
    <<"P","y","t","h","o","n"," ","p","r","o","j","e","c","t">>,
    <<"S","Q","L"," ","p","r","o","j","e","c","t"," ","<","b",">","x">> }

DocTexts == {join(NL, ls) : ls \in SeqsUpTo(DocLines, MaxDocLines)}

\* The bytes around the text of a small PDF (header, binary comment, one text
\* operator in an uncompressed stream, trailer) and of a small DOCX (the local
\* file header of a zip archive, a stored XML run).
PDF_HEAD == <<"%","P","D","F","-","1",".","4","\n","%",BadByte,BadByte,"\n","(">>
PDF_TAIL == <<")"," ","T","j","\n","%","%","E","O","F","\n">>
DOCX_HEAD == <<"P","K","U+0003","U+0004",BadByte,"U+0000","<","w",":","t",">">>
DOCX_TAIL == <<"<","/","w",":","t",">","P","K","U+0005","U+0006">>

\* A file of the given kind that holds text t.
FileOf(fname, kind, t) ==
    [name |-> fname, kind |-> kind,
     bytes |-> IF kind = "pdf" THEN PDF_HEAD \o t \o PDF_TAIL
               ELSE IF kind = "docx" THEN DOCX_HEAD \o t \o DOCX_TAIL
               ELSE t,
     parts |-> IF kind = "pdf" THEN <<t>>
               ELSE IF kind = "docx" THEN split_lines(t)
               ELSE <<>>]

Files == {FileOf(n, k, t) : n \in FileNames, k \in {"pdf", "docx", "text"}, t \in DocTexts}

NameInputs == {<<>>, <<"\f","U+00A0">>, <<" ","A","l","U+00A0">>}
ContactInputs == {<<>>, <<"a","@","b">>}
JobLinkInputs == {<<>>, <<"x">>}

JobWords == {
    <<"P","y","t","h","o","n",","," ","S","Q","L">>,
    <<"j","a","v","a","s","c","r","i","p","t">> }

JobInputs ==
    {<<" ", "\n", "U+00A0">>} \cup {join(<<" ">>, ws) : ws \in SeqsUpTo(JobWords, MaxJobWords)}

Init ==
    /\ TECH_KEYWORDS = KeywordList
    /\ pc = "idle"
    /\ st_name = <<>> /\ st_contact = <<>> /\ resume_file = NoFile
    /\ job_link = <<>> /\ job_desc = <<>>
    /\ name = <<>> /\ contact = <<>> /\ old_text = <<>>
    /\ new_resume = <<>> /\ matched = <<>> /\ unmatched = <<>>
    /\ pdf_path = NoPdf /\ ui = <<>>
    /\ prior_builds = 0
    /\ call = NoCall

locals == <<name, contact, old_text, new_resume, matched, unmatched, pdf_path>>
widgets == <<st_name, st_contact, resume_file, job_link, job_desc>>

\* The user edits a widget: the script reruns with the button not pressed, so
\* the handler is skipped and only the widget's value changes.
SetName ==
    /\ pc = "idle"
    /\ \E v \in NameInputs : st_name' = v
    /\ UNCHANGED <<TECH_KEYWORDS, prior_builds, pc, st_contact, resume_file, job_link, job_desc,
                   locals, ui, call>>

SetContact ==
    /\ pc = "idle"
    /\ \E v \in ContactInputs : st_contact' = v
    /\ UNCHANGED <<TECH_KEYWORDS, prior_builds, pc, st_name, resume_file, job_link, job_desc,
                   locals, ui, call>>

Upload ==
    /\ pc = "idle"
    /\ \E f \in Files : uploader_accepts(f.name) /\ resume_file' = f
    /\ UNCHANGED <<TECH_KEYWORDS, prior_builds, pc, st_name, st_contact, job_link, job_desc,
                   locals, ui, call>>

RemoveUpload ==
    /\ pc = "idle"
    /\ resume_file # NoFile
    /\ resume_file' = NoFile
    /\ UNCHANGED <<TECH_KEYWORDS, prior_builds, pc, st_name, st_contact, job_link, job_desc,
                   locals, ui, call>>

SetJobLink ==
    /\ pc = "idle"
    /\ \E v \in JobLinkInputs : job_link' = v
    /\ UNCHANGED <<TECH_KEYWORDS, prior_builds, pc, st_name, st_contact, resume_file, job_desc,
                   locals, ui, call>>

SetJobDesc ==
    /\ pc = "idle"
    /\ \E v \in JobInputs : job_desc' = v
    /\ UNCHANGED <<TECH_KEYWORDS, prior_builds, pc, st_name, st_contact, resume_file, job_link,
                   locals, ui, call>>

-----------------------------------------------------------------------------
(* Streamlit UI: the "Generate ATS Resume with Skills" handler, one action  *)
(* per statement group; pc names the statement the run is about to execute. *)

\* The button is pressed: a new run renders the page afresh and enters the
\* handler;  name = st.session_state.name.strip(), contact likewise.
ClickGenerate ==
    /\ pc = "idle"
    /\ name' = strip(st_name)
    /\ contact' = strip(st_contact)
    /\ ui' = <<>>
    /\ pc' = "check_file"
    /\ UNCHANGED <<TECH_KEYWORDS, prior_builds, widgets, old_text, new_resume, matched, unmatched,
                   pdf_path, call>>

\* if not resume_file: st.error(...); st.stop()
CheckFile ==
    /\ pc = "check_file"
    /\ IF resume_file = NoFile
       THEN /\ ui' = Append(ui, "error: Please upload your resume")
            /\ pc' = "stopped"
       ELSE /\ ui' = ui
            /\ pc' = "check_details"
    /\ UNCHANGED <<TECH_KEYWORDS, prior_builds, widgets, locals, call>>

\* Variant of CheckDetails without st.stop(): the error is shown and the run
\* goes on.
CheckDetails_no_stop ==
    /\ pc = "check_details"
    /\ IF name = <<>> \/ contact = <<>>
       THEN ui' = Append(ui, "error: Enter your name and contact details")
       ELSE ui' = ui
    /\ pc' = "check_job"
    /\ UNCHANGED <<TECH_KEYWORDS, prior_builds, widgets, locals, call>>

\* if not name or not contact: st.error(...); st.stop()
CheckDetails ==
    /\ pc = "check_details"
    /\ IF name = <<>> \/ contact = <<>>
       THEN /\ ui' = Append(ui, "error: Enter your name and contact details")
            /\ pc' = "stopped"
       ELSE /\ ui' = ui
            /\ pc' = "check_job"
    /\ UNCHANGED <<TECH_KEYWORDS, prior_builds, widgets, locals, call>>

\* Variant of CheckJobDesc that lets an empty job description through.
CheckJobDesc_no_guard ==
    /\ pc = "check_job"
    /\ ui' = ui
    /\ pc' = "extract_text"
    /\ UNCHANGED <<TECH_KEYWORDS, prior_builds, widgets, locals, call>>

\* if not job_desc.strip(): st.error(...); st.stop()
CheckJobDesc ==
    /\ pc = "check_job"
    /\ IF strip(job_desc) = <<>>
       THEN /\ ui' = Append(ui, "error: Paste job description")
            /\ pc' = "stopped"
       ELSE /\ ui' = ui
            /\ pc' = "extract_text"
    /\ UNCHANGED <<TECH_KEYWORDS, prior_builds, widgets, locals, call>>

\* old_text = extract_text(resume_file.read(), resume_file.name); an exception
\* the function raises is not caught and ends the run.
ExtractText ==
    /\ pc = "extract_text"
    /\ LET r == extract_text(resume_file, resume_file.name)
       IN  IF r.raised
           THEN /\ ui' = Append(ui, "exception")
                /\ pc' = "exception"
                /\ old_text' = old_text
           ELSE /\ ui' = ui
                /\ pc' = "build_resume"
                /\ old_text' = r.text
    /\ UNCHANGED <<TECH_KEYWORDS, prior_builds, widgets, name, contact, new_resume, matched,
                   unmatched, pdf_path, call>>

\* Variant of BuildResume in which extract_skills uses up the keywords it finds
\* in the job text: they are removed from the module's list.
BuildResume_consuming ==
    /\ pc = "build_resume"
    /\ \E r \in build_resume(old_text, job_desc, name, contact) :
            /\ new_resume' = r[1]
            /\ matched' = r[2]
            /\ unmatched' = r[3]
    /\ TECH_KEYWORDS' = SelectSeq(TECH_KEYWORDS,
                            LAMBDA k : k \notin set(skills_found(TECH_KEYWORDS, job_desc)))
    /\ pc' = "generate_pdf"
    /\ UNCHANGED <<prior_builds, widgets, name, contact, old_text, pdf_path, ui, call>>

\* new_resume, matched, unmatched = build_resume(old_text, job_desc, name, contact)
BuildResume ==
    /\ pc = "build_resume"
    /\ \E r \in build_resume(old_text, job_desc, name, contact) :
            /\ new_resume' = r[1]
            /\ matched' = r[2]
            /\ unmatched' = r[3]
    /\ pc' = "generate_pdf"
    /\ UNCHANGED <<TECH_KEYWORDS, prior_builds, widgets, name, contact, old_text, pdf_path, ui, call>>

\* pdf_path = generate_pdf(new_resume); an exception the function raises is not
\* caught and ends the run.
GeneratePdf ==
    /\ pc = "generate_pdf"
    /\ \E r \in generate_pdf(new_resume) :
            IF r.raised
            THEN /\ ui' = Append(ui, "exception")
                 /\ pc' = "exception"
                 /\ pdf_path' = pdf_path
            ELSE /\ ui' = ui
                 /\ pc' = "display"
                 /\ pdf_path' = [path |-> r.path, story |-> r.story]
    /\ UNCHANGED <<TECH_KEYWORDS, prior_builds, widgets, name, contact, old_text, new_resume,
                   matched, unmatched, call>>

\* st.success(...), the skill analysis, the job link and the download button
Display ==
    /\ pc = "display"
    /\ ui' = ui \o <<"success: Resume Generated Successfully", "subheader: Skill Analysis">>
                \o (IF matched # <<>> THEN <<"write: Matched Skills">> ELSE <<>>)
                \o (IF unmatched # <<>> THEN <<"write: Skills to Learn">> ELSE <<>>)
                \o (IF strip(job_link) # <<>> THEN <<"info: Job Link">> ELSE <<>>)
                \o <<"download_button">>
    /\ pc' = "done"
    /\ UNCHANGED <<TECH_KEYWORDS, prior_builds, widgets, locals, call>>

\* The run is over (st.stop(), an exception, or the end of the script); the
\* next interaction starts a new run with fresh locals and a fresh page.
Rerun ==
    /\ pc \in {"stopped", "exception", "done"}
    /\ pc' = "idle"
    /\ name' = <<>> /\ contact' = <<>> /\ old_text' = <<>>
    /\ new_resume' = <<>> /\ matched' = <<>> /\ unmatched' = <<>>
    /\ pdf_path' = NoPdf /\ ui' = <<>>
    /\ prior_builds' = IF new_resume # <<>> /\ prior_builds < MaxPriorBuilds
                       THEN prior_builds + 1 ELSE prior_builds
    /\ UNCHANGED <<TECH_KEYWORDS, widgets, call>>

Next ==
    \/ SetName \/ SetContact \/ Upload \/ RemoveUpload \/ SetJobLink \/ SetJobDesc
    \/ ClickGenerate \/ CheckFile \/ CheckDetails \/ CheckJobDesc
    \/ ExtractText \/ BuildResume \/ GeneratePdf \/ Display \/ Rerun

Spec == Init /\ [][Next]_vars

-----------------------------------------------------------------------------
(* Properties of extract_skills and build_resume, checked under SpecCalls  *)

ReturnedFrom(fn) == pc = "returned" /\ call.fn = fn

\* c and d are the same character, or one is the one-character lower case of
\* the other.
SameIgnoringCase(c, d) ==
    \/ c = d
    \/ \E n \in DOMAIN UpperCase : {c, d} = {UpperCase[n], LowerCase[n]}

\* k occurs in t as a contiguous run of characters, letter case ignored.
OccursIgnoringCase(k, t) ==
    \E off \in 0..Len(t) :
        /\ off + Len(k) <= Len(t)
        /\ \A j \in 1..Len(k) : SameIgnoringCase(t[off + j], k[j])

\* The skill set of a text, as every list extract_skills may return gives it.
SkillSet(t) == UNION {set(l) : l \in extract_skills(t)}

K_python == <<"p","y","t","h","o","n">>
K_java == <<"j","a","v","a">>

\* Every letter of t has a lower case of one character that does not depend on
\* the letters around it.
PlainCase(t) == \A i \in DOMAIN t : t[i] \notin {CAPITAL_I_WITH_DOT, CAPITAL_SIGMA}

\* C1: extract_skills(T) returns exactly the keywords of the fixed list that
\* occur as a substring of lowercase(T): nothing else is returned and none of
\* them is left out, with no word-boundary test; where lower-casing goes
\* character by character, these are the keywords that occur in T itself when
\* letter case is ignored.
C1_ExtractSkillsExact ==
    ReturnedFrom("extract_skills") =>
        LET T == call.args[1]
        IN  /\ set(call.ret) = {k \in set(KeywordList) : Contains(k, lower(T))}
            /\ PlainCase(T) =>
                    set(call.ret) = {k \in set(KeywordList) : OccursIgnoringCase(k, T)}

\* C1 witness: on "Python javascript" the call returned "python" (matched
\* through its capital P) and "java" (embedded in "javascript").
C1_Witness ==
    /\ ReturnedFrom("extract_skills")
    /\ call.args[1] = <<"P","y","t","h","o","n"," ","j","a","v","a","s","c","r","i","p","t">>
    /\ K_python \in set(call.ret)
    /\ K_java \in set(call.ret)

\* C2: build_resume's matched list is extract_skills(R) /\ extract_skills(J)
\* and its missing list is extract_skills(J) minus extract_skills(R), as sets.
C2_MatchedMissingAreSetOps ==
    ReturnedFrom("build_resume") =>
        LET R == SkillSet(call.args[1])
            J == SkillSet(call.args[2])
        IN  /\ set(call.ret[2]) = R \cap J
            /\ set(call.ret[3]) = J \ R

\* C2 witness: a call whose resume and job share a skill, where the job has a
\* skill the resume lacks and the resume one the job lacks.
C2_Witness ==
    /\ ReturnedFrom("build_resume")
    /\ call.ret[2] # <<>>
    /\ call.ret[3] # <<>>
    /\ SkillSet(call.args[1]) \ SkillSet(call.args[2]) # {}

\* C3: matched and missing partition the job's skill set: their union is
\* extract_skills(job text) and they have no skill in common.
C3_MatchedMissingPartitionJob ==
    ReturnedFrom("build_resume") =>
        /\ set(call.ret[2]) \cup set(call.ret[3]) = SkillSet(call.args[2])
        /\ set(call.ret[2]) \cap set(call.ret[3]) = {}

\* C3 witness: both parts of the partition are non-empty and the resume has a
\* skill outside the job's set.
C3_Witness ==
    /\ ReturnedFrom("build_resume")
    /\ Len(call.ret[2]) >= 1
    /\ Len(call.ret[3]) >= 2
    /\ SkillSet(call.args[1]) \ SkillSet(call.args[2]) # {}

StrictlyAscending(l) == \A i \in 1..(Len(l) - 1) : StrLess(l[i], l[i + 1])

\* C10: the matched and the missing list build_resume returns are each in
\* strictly ascending alphabetical order (hence without duplicates), whatever
\* order extract_skills listed the skills in.
C10_ListsSortedNoDuplicates ==
    ReturnedFrom("build_resume") =>
        /\ StrictlyAscending(call.ret[2])
        /\ Cardinality(set(call.ret[2])) = Len(call.ret[2])
        /\ StrictlyAscending(call.ret[3])
        /\ Cardinality(set(call.ret[3])) = Len(call.ret[3])

\* C10 witness: a call returned a matched and a missing list of at least two
\* skills each, and each extract_skills call had several orders to list in.
C10_Witness ==
    /\ ReturnedFrom("build_resume")
    /\ Len(call.ret[2]) >= 2
    /\ Len(call.ret[3]) >= 2
    /\ Cardinality(extract_skills(call.args[1])) > 1
    /\ Cardinality(extract_skills(call.args[2])) > 1

\* The section the claim assigns a line to, by first match.
C9_Class(line) ==
    IF OccursIgnoringCase(W_project, line) THEN "PROJECTS"
    ELSE IF OccursIgnoringCase(W_intern, line) \/ OccursIgnoringCase(W_experience, line)
         THEN "EXPERIENCE"
    ELSE IF \/ OccursIgnoringCase(W_btech, line)
            \/ OccursIgnoringCase(W_degree, line)
            \/ OccursIgnoringCase(W_university, line)
         THEN "EDUCATION"
    ELSE IF \E k \in set(KeywordList) : OccursIgnoringCase(k, line) THEN "SKILLS"
    ELSE "SUMMARY"

\* The line number of heading h in the lines of a resume: h, then the dashes.
HeadingAt(out, h) ==
    CHOOSE i \in 1..(Len(out) - 1) : out[i] = h /\ out[i + 1] = Dashes

\* Lines a..b of out (none when b < a).
LinesFrom(out, a, b) == [k \in 1..(b + 1 - a) |-> out[a + k - 1]]

\* The "- " bullet items that make up the given lines, without the "- ".
Unbullet(ls) == [k \in DOMAIN ls |-> SubSeq(ls[k], 3, Len(ls[k]))]
AllBullets(ls) == \A k \in DOMAIN ls : Len(ls[k]) >= 2 /\ SubSeq(ls[k], 1, 2) = <<"-", " ">>

\* C9: every non-blank stripped line of the old resume goes to exactly one
\* section, chosen by first match (project; intern/experience;
\* b.tech/degree/university; any keyword; else SUMMARY, letter case ignored);
\* the resume lists under PROJECTS, EXPERIENCE and EDUCATION the first 5, 4
\* and 3 lines of those sections in their original order and nothing else, so
\* no line of SKILLS or SUMMARY is listed.
C9_SectionsAndListing ==
    ReturnedFrom("build_resume") =>
        LET lines == resume_lines(call.args[1])
            of(n) == SelectSeq(lines, LAMBDA l : C9_Class(l) = n)
            out == split_lines(call.ret[1])
            iP == HeadingAt(out, H_PROJECTS)
            iE == HeadingAt(out, H_EXPERIENCE)
            iD == HeadingAt(out, H_EDUCATION)
            listedP == LinesFrom(out, iP + 2, iE - 2)
            listedE == LinesFrom(out, iE + 2, iD - 2)
            listedD == LinesFrom(out, iD + 2, Len(out) - 1)
            dropped == set(of("SKILLS")) \cup set(of("SUMMARY"))
        IN  /\ \A n \in SectionNames : call.sections[n] = of(n)
            /\ AllBullets(listedP) /\ AllBullets(listedE) /\ AllBullets(listedD)
            /\ Unbullet(listedP) = take(of("PROJECTS"), 5)
            /\ Unbullet(listedE) = take(of("EXPERIENCE"), 4)
            /\ Unbullet(listedD) = take(of("EDUCATION"), 3)
            /\ out[iE - 1] = <<>> /\ out[iD - 1] = <<>> /\ out[Len(out)] = <<>>
            /\ dropped \cap (set(Unbullet(listedP)) \cup set(Unbullet(listedE))
                             \cup set(Unbullet(listedD))) = {}

\* C9 witness: a resume with six PROJECTS lines, the sixth (not listed)
\* different from the fifth, and a line that went to SKILLS or SUMMARY.
C9_Witness ==
    /\ ReturnedFrom("build_resume")
    /\ Len(call.sections["PROJECTS"]) = 6
    /\ call.sections["PROJECTS"][6] # call.sections["PROJECTS"][5]
    /\ call.sections["SKILLS"] \o call.sections["SUMMARY"] # <<>>

\* The lexical score of the specification in hundredths: 100 * m / n rounded
\* to two decimals, 0 when n = 0.
LexicalScoreX100(m, n) == IF n = 0 THEN 0 ELSE (20000 * m + n) \div (2 * n)

\* C4: every analysis produces a match score; the score lies in [0,100] and
\* equals 100 * |skills(resume) /\ skills(job)| / |skills(job)| rounded to two
\* decimals; it is 0 when the job's skill set is empty and 100 when the
\* resume's skill set includes the job's (non-empty) skill set.
C4_Original ==
    ReturnedFrom("build_resume") =>
        LET R == SkillSet(call.args[1])
            J == SkillSet(call.args[2])
        IN  /\ Len(call.ret) >= 4
            /\ call.ret[4] = LexicalScoreX100(Cardinality(R \cap J), Cardinality(J))
            /\ call.ret[4] \in 0..10000
            /\ (J = {} => call.ret[4] = 0)
            /\ (J # {} /\ J \subseteq R => call.ret[4] = 10000)

-----------------------------------------------------------------------------
(* Properties of the Generate handler, checked under Spec                  *)

HasFile == resume_file # NoFile
DetailsGiven == strip(st_name) # <<>> /\ strip(st_contact) # <<>>
JobGiven == strip(job_desc) # <<>>

ERR_UPLOAD == "error: Please upload your resume"
ERR_DETAILS == "error: Enter your name and contact details"
ERR_JOB == "error: Paste job description"
Errors(log) == SelectSeq(log, LAMBDA e : e \in {ERR_UPLOAD, ERR_DETAILS, ERR_JOB})

\* The run has passed the three checks: it is at, or beyond, extract_text.
PastChecks == pc \in {"extract_text", "build_resume", "generate_pdf", "display",
                      "done", "exception"}
\* The run has executed the extract_text statement.
PastExtract == pc \in {"build_resume", "generate_pdf", "display", "done", "exception"}
NothingBuilt == old_text = <<>> /\ new_resume = <<>> /\ pdf_path = NoPdf

C8_Inv ==
    /\ PastChecks => HasFile /\ DetailsGiven /\ JobGiven /\ Errors(ui) = <<>>
    /\ (new_resume # <<>> \/ pdf_path # NoPdf
            \/ \E i \in DOMAIN ui : ui[i] = "success: Resume Generated Successfully")
        => HasFile /\ DetailsGiven /\ JobGiven
    /\ Len(Errors(ui)) <= 1
    /\ pc = "stopped" =>
        /\ NothingBuilt
        /\ ui = << IF ~HasFile THEN ERR_UPLOAD
                   ELSE IF ~DetailsGiven THEN ERR_DETAILS
                   ELSE ERR_JOB >>
        /\ ~(HasFile /\ DetailsGiven /\ JobGiven)

C8_Step ==
    /\ pc = "check_file" => pc' \in {"stopped", "check_details"}
    /\ pc = "check_details" => pc' \in {"stopped", "check_job"}
    /\ pc = "check_job" => pc' \in {"stopped", "extract_text"}
    /\ pc' = "check_file" => pc = "idle"
    /\ pc' = "check_details" => pc = "check_file"
    /\ pc' = "check_job" => pc = "check_details"
    /\ pc' = "extract_text" => pc = "check_job"
    /\ pc' = "stopped" => pc \in {"check_file", "check_details", "check_job"}
                          /\ Len(ui') = Len(ui) + 1
    /\ pc = "stopped" => pc' = "idle" /\ new_resume' = <<>> /\ pdf_path' = NoPdf

\* C8: in every run of the handler, extract_text, build_resume, generate_pdf
\* and the success message are reached only with a file uploaded, a non-empty
\* stripped name and contact and a non-empty stripped job description; the
\* checks run in the order file, name/contact, job description; the first one
\* that fails reports exactly one error and stops the run, after which no
\* further check, resume build or PDF generation takes place.
C8_ChecksGuardTheRun == []C8_Inv /\ [][C8_Step]_vars

\* C8 witness: a run stopped by the second check: a file was given, the name
\* typed was white space only (a form feed and a no-break space) and the job
\* description was blank too; the one error reported is the name/contact one.
C8_Witness ==
    /\ pc = "stopped"
    /\ HasFile /\ ~DetailsGiven /\ ~JobGiven
    /\ st_name = <<"\f", "U+00A0">>
    /\ ui = <<ERR_DETAILS>>

\* C5 as stated: with an empty job text the analysis ends as a normal result
\* with matched and missing both empty, not as a blocking failure.
C5_Original ==
    (pc \in {"stopped", "exception", "done"} /\ HasFile /\ DetailsGiven /\ job_desc = <<>>)
        => (pc = "done" /\ matched = <<>> /\ unmatched = <<>> /\ Errors(ui) = <<>>)

\* C5 amended: with an empty job text build_resume returns normally with
\* matched and missing both empty for every resume text, but the Generate
\* handler does not get that far: given a file, a name and a contact it reports
\* "Paste job description" and stops, so the empty job description is a
\* blocking failure of the request and no resume or PDF is produced.
C5_EmptyJobBlocksTheRun ==
    job_desc = <<>> =>
        /\ ~PastChecks
        /\ (pc = "stopped" /\ HasFile /\ DetailsGiven) =>
                /\ ui = <<ERR_JOB>>
                /\ NothingBuilt
                /\ \A t \in DocTexts :
                     \A r \in build_resume(t, job_desc, name, contact) :
                        r[2] = <<>> /\ r[3] = <<>>

\* C5 witness: a run with a file, a name and a contact and the empty job text
\* has been stopped with the job-description error.
C5_Witness ==
    /\ pc = "stopped"
    /\ HasFile /\ DetailsGiven /\ job_desc = <<>>
    /\ ui = <<ERR_JOB>>

\* The extensions the claim calls recognized.
RecognizedExtension(fname) ==
    EndsWith(fname, EXT_PDF) \/ EndsWith(fname, EXT_DOCX) \/ EndsWith(fname, EXT_TXT)

\* The names extract_text parses as a document.
ParsedAsDocument(fname) == EndsWith(fname, EXT_PDF) \/ EndsWith(fname, EXT_DOCX)

\* C7 as stated: for a file whose name carries none of .pdf, .docx, .txt the
\* extraction fails, the run is blocked, no resume is built and no PDF generated.
C7_Original ==
    /\ HasFile =>
            \A n \in FileNames :
                ~RecognizedExtension(n) => extract_text(resume_file, n).raised
    /\ (PastExtract /\ ~RecognizedExtension(resume_file.name))
            => (pc = "exception" /\ new_resume = <<>> /\ pdf_path = NoPdf)

\* C7 amended: extract_text has no unsupported-format failure: given a name
\* that ends in neither ".pdf" nor ".docx" (".txt" or anything else) it returns
\* the file decoded as UTF-8 with undecodable bytes ignored, which never fails,
\* whatever the bytes are.  The run of such a file is not blocked: it goes on
\* to build the resume and to call generate_pdf, and shows the result with a
\* PDF unless generate_pdf raises, which ends the run after the resume has
\* been built and without a PDF.  A run that ends in an exception before any
\* resume is built is that of a ".pdf"/".docx" name whose file cannot be
\* parsed; no resume is built and no PDF generated then.
C7_UnknownExtensionIsDecoded ==
    /\ HasFile =>
            \A n \in FileNames :
                ~ParsedAsDocument(n) =>
                    extract_text(resume_file, n)
                        = [raised |-> FALSE, text |-> decode(resume_file)]
    /\ (PastExtract /\ ~ParsedAsDocument(resume_file.name)) =>
            /\ old_text = decode(resume_file)
            /\ new_resume = <<>> => pc = "build_resume"
    /\ pc \in {"generate_pdf", "display", "done"} => new_resume # <<>>
    /\ pc \in {"display", "done"} => pdf_path # NoPdf
    /\ pc = "exception" =>
            /\ pdf_path = NoPdf
            /\ new_resume = <<>> =>
                    ParsedAsDocument(resume_file.name) /\ old_text = <<>>

\* C7 witness: a run with a file named "cv.txt" that holds the bytes of a PDF
\* has decoded them, built a resume and generated the PDF.
C7_Witness ==
    /\ pc = "done"
    /\ resume_file.name = <<"c","v",".","t","x","t">>
    /\ resume_file.kind = "pdf"
    /\ old_text = decode(resume_file)
    /\ new_resume # <<>> /\ pdf_path # NoPdf

\* C6: no call leaves shared state behind: the keyword list is the one the
\* module was loaded with after any sequence of runs, and what build_resume
\* returned is what it returns for these (resume text, job text, name, contact)
\* with the list as loaded, whatever runs preceded.
C6_NoSharedMutableState ==
    /\ TECH_KEYWORDS = KeywordList
    /\ pc \in {"generate_pdf", "display", "done"} =>
            <<new_resume, matched, unmatched>>
                \in build_with(KeywordList, old_text, job_desc, name, contact)

\* C6 witness: build_resume has returned matched skills in a run that follows
\* an earlier run which called build_resume too.
C6_Witness ==
    /\ pc = "generate_pdf"
    /\ prior_builds >= 1
    /\ matched # <<>>

=============================================================================
